---- MODULE Spec2Model ----
(***************************************************************************)
(* socialkit: the Bluesky client (BskyClient) and the Reddit client        *)
(* (RedditClient) as state machines.  Every async method is cut at its     *)
(* awaits: a Call action runs the method up to its first network request,  *)
(* a Return action takes the provider's answer and runs the method up to   *)
(* its next request or to its return.  The provider (the Bluesky PDS, the  *)
(* Reddit API) is the environment: its answers are drawn from small sets.  *)
(***************************************************************************)
EXTENDS Integers, Sequences, FiniteSets, TLC

\* ------------------------------------------------------------------ bounds
\* the largest `limit` a caller passes
MaxLimit == 3
\* the largest number of items in one provider page
MaxPage == 3
\* the largest number of items the provider serves to one call, over all its pages
MaxItems == 3
\* the provider hands out a next cursor on fewer than MaxFetch responses of one call
MaxFetch == 3
\* the largest number of image urls given to newPost
MaxImages == 2

\* ------------------------------------------------------------- data shapes
\* agent.session?.did of a client that never logged in (undefined)
NoSession == ""
\* the did of the account the credentials belong to
SelfDid == "did:me"
\* an absent handle argument (undefined)
NoHandle == ""
Handles == {NoHandle, "bob"}
\* an absent cursor (undefined); the provider's cursors are 1, 2, ...
NoCursor == 0
\* the null returned by parseFeedItem
Null == [null |-> TRUE]

PostTypes == {"post", "reply", "repost", "quote"}
\* the `type` argument: null (no filter) or a post type
NoType == "null"
TypeArgs == {NoType} \cup PostTypes
\* the `type` arguments the callers of this model pass
CallTypes == {NoType, "post"}

\* A raw feed item.  shape: the item itself is an object, null or undefined;
\* post: item.post is present, null or absent; reason: item.reason.$type;
\* replyParent: post.record.reply.parent is set; embed: post.embed.$type;
\* author: post.author.did is the session's did, another did, or absent.
PostFields == {"present", "null", "absent"}
Reasons == {"none", "reasonRepost", "reasonPin"}
Embeds == {"none", "record#view", "recordWithMedia#view", "images#view", "external#view"}
Authors == {"self", "other", "absent"}

RawItem(shape, post, reason, replyParent, embed, author) ==
    [id |-> 0, shape |-> shape, post |-> post, reason |-> reason,
     replyParent |-> replyParent, embed |-> embed, author |-> author]

\* every raw value parseFeedItem can be handed
RawItems ==
    { RawItem("object", p, r, rp, e, a) :
        p \in PostFields, r \in Reasons, rp \in BOOLEAN, e \in Embeds, a \in Authors }
    \cup { RawItem(s, "absent", "none", FALSE, "none", "absent") : s \in {"null", "undefined"} }

\* the items a provider feed page is made of: objects, as app.bsky.feed.defs#feedViewPost
NoPostItem == RawItem("object", "absent", "none", FALSE, "none", "absent")
RepostItem == RawItem("object", "present", "reasonRepost", FALSE, "none", "other")
ReplyItem == RawItem("object", "present", "none", TRUE, "none", "other")
PlainItem == RawItem("object", "present", "none", FALSE, "none", "other")
OwnItem == RawItem("object", "present", "none", FALSE, "none", "self")
FeedKinds == {NoPostItem, RepostItem, ReplyItem, PlainItem, OwnItem}

\* ------------------------------------------------------------------- state
VARIABLES
    session,   \* BskyClient: agent.session?.did, NoSession before a login succeeds
    token,     \* RedditClient: this.token
    axiosSet,  \* RedditClient: this.axios is defined
    pc,        \* "idle", "await" (one request outstanding), "join" (Promise.all), "done"
    call,      \* the method running and its arguments
    cursor,    \* the method's local `cursor`
    out,       \* the method's local output list (posts, follows, followers, nonMutuals)
    page,      \* the page whose entries are being looked up
    idx,       \* getFollows/getFollowers: index of the entry being looked up
    pending,   \* Promise.all: the branches not settled yet
    checks,    \* Promise.all: the settled branches' values
    net,       \* the requests the running method has issued, in order
    seen,      \* history: the items of all pages the provider served to this call
    resp,      \* the last page response (`data`), and the number of page responses so far
    failed,    \* history: some provider call of this method threw
    lost,      \* history: the ids of the entries whose profile lookup threw and was caught
    outcome,   \* "none" while running, "ok", or the kind of error thrown
    result     \* the returned list (a single value is a list of one)

vars == <<session, token, axiosSet, pc, call, cursor, out, page, idx, pending, checks,
          net, seen, resp, failed, lost, outcome, result>>

client == <<session, token, axiosSet>>
locals == <<cursor, out, page, idx, pending, checks>>
history == <<seen, resp, failed, lost>>

NoCall ==
    [name |-> "none", type |-> NoType, limit |-> 0, includeSelf |-> TRUE,
     handle |-> NoHandle, sort |-> "", subreddit |-> "", item |-> NoPostItem, images |-> 0]
NoResp == [n |-> 0, cursor |-> NoCursor, size |-> 0, missing |-> FALSE]

\* a request: the SDK or HTTP call, the cursor and the limit it carries, what it names
Request(api, cur, path) == [api |-> api, cursor |-> cur, path |-> path, limit |-> 0]

Init ==
    /\ session = NoSession
    /\ token = ""
    /\ axiosSet = FALSE
    /\ pc = "idle"
    /\ call = NoCall
    /\ cursor = NoCursor
    /\ out = <<>>
    /\ page = <<>>
    /\ idx = 0
    /\ pending = {}
    /\ checks = <<>>
    /\ net = <<>>
    /\ seen = <<>>
    /\ resp = NoResp
    /\ failed = FALSE
    /\ lost = {}
    /\ outcome = "none"
    /\ result = <<>>

\* ------------------------------------------------------------ shared steps
\* the method throws `err` before or between requests
Throw(err) ==
    /\ pc' = "done"
    /\ outcome' = err
    /\ result' = <<>>

\* the method returns `value`
Finish(value) ==
    /\ pc' = "done"
    /\ outcome' = "ok"
    /\ result' = value

\* the method issues request `req` and suspends on it
Await(req) ==
    /\ pc' = "await"
    /\ net' = Append(net, req)
    /\ UNCHANGED <<outcome, result>>

Min(a, b) == IF a < b THEN a ELSE b

\* a page of at most MaxPage items of `kinds`, numbered on from the items served so far
Pages(kinds) ==
    UNION { { [i \in 1..n |-> [f[i] EXCEPT !.id = Len(seen) + i]] : f \in [1..n -> kinds] }
            : n \in 0..Min(MaxPage, MaxItems - Len(seen)) }

\* the request the method is suspended on
Awaiting(api) == pc = "await" /\ net[Len(net)].api = api

\* the cursors the provider may attach to its next response
NextCursors == IF resp.n + 1 < MaxFetch THEN {NoCursor, resp.n + 1} ELSE {NoCursor}

\* ------------------------------------------------- BskyClient.parseFeedItem
\* `item.post` on a null or undefined item is a TypeError
ParseThrows(item) == item.shape # "object"

\* Classify with the reply test moved ahead of the repost test
ClassifyReplyFirst(item) ==
    IF item.replyParent THEN "reply"
    ELSE IF item.reason = "reasonRepost" THEN "repost"
    ELSE IF item.embed = "record#view" \/ item.embed = "recordWithMedia#view" THEN "quote"
    ELSE "post"

\* the type of a post, by the if / else-if chain
Classify(item) ==
    IF item.reason = "reasonRepost" THEN "repost"
    ELSE IF item.replyParent THEN "reply"
    ELSE IF item.embed = "record#view" \/ item.embed = "recordWithMedia#view" THEN "quote"
    ELSE "post"

\* the value returned for an item that is an object
ParseFeedItem(item) ==
    IF item.post # "present" THEN Null
    ELSE [root |-> item, type |-> Classify(item)]

\* the static utility called directly
CallParseFeedItem(item) ==
    /\ pc = "idle"
    /\ call' = [NoCall EXCEPT !.name = "parseFeedItem", !.item = item]
    /\ IF ParseThrows(item) THEN Throw("type_error") ELSE Finish(<<ParseFeedItem(item)>>)
    /\ UNCHANGED <<client, locals, net, history>>

\* ----------------------------------------------------------- shared steps
\* RequestThrows with the session dropped by the rejection
RequestThrowsDropsSession ==
    /\ pc = "await"
    /\ Throw("network")
    /\ failed' = TRUE
    /\ session' = NoSession
    /\ UNCHANGED <<token, axiosSet, call, locals, net, seen, resp, lost>>

\* RequestThrows with the rejection caught and the accumulated list returned
RequestThrowsCaught ==
    /\ pc = "await"
    /\ Finish(out)
    /\ failed' = TRUE
    /\ UNCHANGED <<client, call, locals, net, seen, resp, lost>>

\* the awaited request rejects and nothing catches it: the method rejects
RequestThrows ==
    /\ pc = "await"
    /\ Throw("network")
    /\ failed' = TRUE
    /\ UNCHANGED <<client, call, locals, net, seen, resp, lost>>

\* the caller has the method's result; its frame is gone
Return ==
    /\ pc = "done"
    /\ pc' = "idle"
    /\ call' = NoCall
    /\ cursor' = NoCursor
    /\ out' = <<>>
    /\ page' = <<>>
    /\ idx' = 0
    /\ pending' = {}
    /\ checks' = <<>>
    /\ net' = <<>>
    /\ seen' = <<>>
    /\ resp' = NoResp
    /\ failed' = FALSE
    /\ lost' = {}
    /\ outcome' = "none"
    /\ result' = <<>>
    /\ UNCHANGED client

\* --------------------------------------------------------- BskyClient.login
Login ==
    /\ pc = "idle"
    /\ call' = [NoCall EXCEPT !.name = "login"]
    /\ Await(Request("login", NoCursor, <<>>))
    /\ UNCHANGED <<client, locals, history>>

\* agent.login resolved: the agent holds the session
LoginReturn ==
    /\ pc = "await"
    /\ call.name = "login"
    /\ session' = SelfDid
    /\ Finish(<<>>)
    /\ UNCHANGED <<token, axiosSet, call, locals, net, history>>

\* --------------------------------------------------- BskyClient.getTimeline
\* TimelineAccepts without the includeSelf test
TimelineAcceptsAnyAuthor(parsed, c) ==
    /\ parsed # Null
    /\ (c.type = NoType \/ parsed.type = c.type)

\* the filter of the for loop
TimelineAccepts(parsed, c) ==
    /\ parsed # Null
    /\ (c.type = NoType \/ parsed.type = c.type)
    /\ (c.includeSelf \/ parsed.root.author # "self")

\* TimelineLoop without the break at the limit
RECURSIVE TimelineLoopNoBreak(_, _, _, _)
TimelineLoopNoBreak(posts, feed, i, c) ==
    IF i > Len(feed) THEN posts
    ELSE IF TimelineAccepts(ParseFeedItem(feed[i]), c)
         THEN TimelineLoopNoBreak(Append(posts, ParseFeedItem(feed[i])), feed, i + 1, c)
         ELSE TimelineLoopNoBreak(posts, feed, i + 1, c)

\* the for loop over one page, from item i on: push the accepted, break at the limit
RECURSIVE TimelineLoop(_, _, _, _)
TimelineLoop(posts, feed, i, c) ==
    IF i > Len(feed) THEN posts
    ELSE IF TimelineAccepts(ParseFeedItem(feed[i]), c)
         THEN LET pushed == Append(posts, ParseFeedItem(feed[i]))
              IN  IF Len(pushed) >= c.limit THEN pushed
                  ELSE TimelineLoop(pushed, feed, i + 1, c)
         ELSE TimelineLoop(posts, feed, i + 1, c)

\* TimelineContinues without the test of the cursor
TimelineContinuesWithoutCursor(posts, feed, cur, c) ==
    /\ Len(feed) # 0
    /\ Len(posts) < c.limit

\* after a page: leave the while loop, or fetch the next page
TimelineContinues(posts, feed, cur, c) ==
    /\ ~(cur = NoCursor \/ Len(feed) = 0)
    /\ Len(posts) < c.limit

GetTimeline(type, limit, includeSelf) ==
    /\ pc = "idle"
    /\ call' = [NoCall EXCEPT !.name = "getTimeline", !.type = type, !.limit = limit,
                              !.includeSelf = includeSelf]
    /\ IF session = NoSession
       THEN Throw("unauthenticated") /\ UNCHANGED net
       ELSE IF 0 < limit
            THEN Await(Request("getTimeline", NoCursor, <<>>))
            ELSE Finish(<<>>) /\ UNCHANGED net
    /\ UNCHANGED <<client, locals, history>>

\* agent.getTimeline resolved with a page
TimelineReturn ==
    /\ pc = "await"
    /\ call.name = "getTimeline"
    /\ \E feed \in Pages(FeedKinds), cur \in NextCursors, missing \in BOOLEAN :
        /\ missing => feed = <<>>
        /\ LET posts == TimelineLoop(out, feed, 1, call)
           IN  /\ cursor' = cur
               /\ out' = posts
               /\ seen' = seen \o feed
               /\ resp' = [n |-> resp.n + 1, cursor |-> cur, size |-> Len(feed),
                           missing |-> missing]
               /\ IF TimelineContinues(posts, feed, cur, call)
                  THEN Await(Request("getTimeline", cur, <<>>))
                  ELSE Finish(posts) /\ UNCHANGED net
    /\ UNCHANGED <<client, call, page, idx, pending, checks, failed, lost>>

\* ----------------------------------------------- BskyClient.getProfilePosts
\* Actor falling back on the configured username instead of the session's did
ActorOrUsername(handle) == IF handle # NoHandle THEN handle ELSE "me.bsky.social"

\* handle || this.agent.session?.did
Actor(handle) == IF handle # NoHandle THEN handle ELSE session

ProfilePostsAccepts(parsed, c) ==
    /\ parsed # Null
    /\ parsed.type = c.type

RECURSIVE ProfilePostsLoop(_, _, _, _)
ProfilePostsLoop(posts, feed, i, c) ==
    IF i > Len(feed) THEN posts
    ELSE IF ProfilePostsAccepts(ParseFeedItem(feed[i]), c)
         THEN LET pushed == Append(posts, ParseFeedItem(feed[i]))
              IN  IF Len(pushed) >= c.limit THEN pushed
                  ELSE ProfilePostsLoop(pushed, feed, i + 1, c)
         ELSE ProfilePostsLoop(posts, feed, i + 1, c)

ProfilePostsContinues(posts, feed, cur, c) ==
    /\ ~(cur = NoCursor \/ Len(feed) = 0)
    /\ Len(posts) < c.limit

GetProfilePosts(handle, type, limit) ==
    /\ pc = "idle"
    /\ call' = [NoCall EXCEPT !.name = "getProfilePosts", !.handle = handle,
                              !.type = type, !.limit = limit]
    /\ IF Actor(handle) = NoSession
       THEN Throw("unauthenticated") /\ UNCHANGED net
       ELSE IF 0 < limit
            THEN Await(Request("getAuthorFeed", NoCursor, <<Actor(handle)>>))
            ELSE Finish(<<>>) /\ UNCHANGED net
    /\ UNCHANGED <<client, locals, history>>

\* agent.getAuthorFeed resolved with a page
ProfilePostsReturn ==
    /\ pc = "await"
    /\ call.name = "getProfilePosts"
    /\ \E feed \in Pages(FeedKinds), cur \in NextCursors, missing \in BOOLEAN :
        /\ missing => feed = <<>>
        /\ LET posts == ProfilePostsLoop(out, feed, 1, call)
           IN  /\ cursor' = cur
               /\ out' = posts
               /\ seen' = seen \o feed
               /\ resp' = [n |-> resp.n + 1, cursor |-> cur, size |-> Len(feed),
                           missing |-> missing]
               /\ IF ProfilePostsContinues(posts, feed, cur, call)
                  THEN Await(Request("getAuthorFeed", cur, <<Actor(call.handle)>>))
                  ELSE Finish(posts) /\ UNCHANGED net
    /\ UNCHANGED <<client, call, page, idx, pending, checks, failed, lost>>

\* ------------------------------------- BskyClient.getFollows, getFollowers
\* An entry of a follow list.  rel: what the entry's profile reports in
\* viewer.followedBy (getFollows, getNonMutualFollows) or viewer.following
\* (getFollowers); flag: the followsMe / iFollow the client has set on it.
Entry(rel) == [id |-> 0, rel |-> rel, flag |-> "unset"]
EntryKinds == {Entry(TRUE), Entry(FALSE)}
Did(entry) == <<"did", entry.id>>

\* Slice without the cut
SliceAll(list, limit) == list

\* follows.slice(0, limit)
Slice(list, limit) == SubSeq(list, 1, Min(limit, Len(list)))

\* after a page: `if (!cursor || data.follows?.length === 0) break`, then the while test
FollowListContinues(list, cur, data, c) ==
    /\ ~(cur = NoCursor \/ (~data.missing /\ data.size = 0))
    /\ Len(list) < c.limit

\* the method up to its first request
FollowListCall(name, handle, limit) ==
    /\ pc = "idle"
    /\ call' = [NoCall EXCEPT !.name = name, !.handle = handle, !.limit = limit]
    /\ IF Actor(handle) = NoSession
       THEN Throw("unauthenticated") /\ UNCHANGED net
       ELSE IF 0 < limit
            THEN Await(Request(name, NoCursor, <<Actor(handle)>>))
            ELSE Finish(Slice(<<>>, limit)) /\ UNCHANGED net
    /\ UNCHANGED <<client, locals, history>>

\* FollowListPageDone with the next fetch carrying the cursor of the pass before
FollowListPageDoneStaleCursor(entries, data) ==
    LET list == out \o entries
    IN  /\ out' = list
        /\ cursor' = data.cursor
        /\ IF FollowListContinues(list, data.cursor, data, call)
           THEN Await(Request(call.name, cursor, <<Actor(call.handle)>>))
           ELSE Finish(Slice(list, call.limit)) /\ UNCHANGED net

\* the end of one pass of the while loop, with the page's entries flagged
FollowListPageDone(entries, data) ==
    LET list == out \o entries
    IN  /\ out' = list
        /\ cursor' = data.cursor
        /\ IF FollowListContinues(list, data.cursor, data, call)
           THEN Await(Request(call.name, data.cursor, <<Actor(call.handle)>>))
           ELSE Finish(Slice(list, call.limit)) /\ UNCHANGED net

\* the page fetch resolved: look the first entry up, or end the pass on an empty page
FollowListReturn(name) ==
    /\ call.name = name
    /\ Awaiting(name)
    /\ \E entries \in Pages(EntryKinds), cur \in NextCursors, missing \in BOOLEAN :
        /\ missing => entries = <<>>
        /\ LET data == [n |-> resp.n + 1, cursor |-> cur, size |-> Len(entries),
                        missing |-> missing]
           IN  /\ resp' = data
               /\ seen' = seen \o entries
               /\ IF Len(entries) > 0
                  THEN /\ page' = entries
                       /\ idx' = 1
                       /\ Await(Request("getProfile", NoCursor, <<Did(entries[1])>>))
                       /\ UNCHANGED <<out, cursor>>
                  ELSE /\ FollowListPageDone(entries, data)
                       /\ UNCHANGED <<page, idx>>
    /\ UNCHANGED <<client, call, pending, checks, failed, lost>>

\* agent.getProfile of entry idx resolved: flag it, look the next one up or end the pass
FollowListLookupReturn(name) ==
    /\ call.name = name
    /\ Awaiting("getProfile")
    /\ LET flagged == [page EXCEPT ![idx].flag = IF page[idx].rel THEN "yes" ELSE "no"]
       IN  IF idx < Len(page)
           THEN /\ page' = flagged
                /\ idx' = idx + 1
                /\ Await(Request("getProfile", NoCursor, <<Did(page[idx + 1])>>))
                /\ UNCHANGED <<out, cursor>>
           ELSE /\ page' = <<>>
                /\ idx' = 0
                /\ FollowListPageDone(flagged, resp)
    /\ UNCHANGED <<client, call, pending, checks, history>>

GetFollows(handle, limit) == FollowListCall("getFollows", handle, limit)
FollowsReturn == FollowListReturn("getFollows")
FollowsLookupReturn == FollowListLookupReturn("getFollows")

GetFollowers(handle, limit) == FollowListCall("getFollowers", handle, limit)
FollowersReturn == FollowListReturn("getFollowers")
FollowersLookupReturn == FollowListLookupReturn("getFollowers")

\* ------------------------------------------- BskyClient.getNonMutualFollows
\* a branch of the Promise.all that has not settled
Unsettled == [unsettled |-> TRUE]

\* NonMutualCheck with a failed lookup counted as "does not follow back"
NonMutualCheckKeepsFailed(entry, throws) ==
    IF ~throws /\ entry.rel THEN Null
    ELSE [entry EXCEPT !.flag = "no"]

\* NonMutualCheck without the followsMe test
NonMutualCheckKeepsMutual(entry, throws) ==
    IF throws THEN Null
    ELSE [entry EXCEPT !.flag = "no"]

\* the value of one branch: null for a mutual follow or a failed lookup
NonMutualCheck(entry, throws) ==
    IF throws THEN Null
    ELSE IF entry.rel THEN Null
    ELSE [entry EXCEPT !.flag = "no"]

\* `for (const result of checks)`: push the non-null results, break at the limit
RECURSIVE NonMutualLoop(_, _, _, _)
NonMutualLoop(list, results, i, c) ==
    IF i > Len(results) THEN list
    ELSE IF results[i] # Null
         THEN LET pushed == Append(list, results[i])
              IN  IF Len(pushed) >= c.limit THEN pushed
                  ELSE NonMutualLoop(pushed, results, i + 1, c)
         ELSE NonMutualLoop(list, results, i + 1, c)

NonMutualContinues(list, cur, c) ==
    /\ cur # NoCursor
    /\ Len(list) < c.limit

\* LookupRequests with no lookup for entries the limit leaves no room for
RECURSIVE LookupRequestsUpToLimit(_, _)
LookupRequestsUpToLimit(entries, i) ==
    IF i > Min(Len(entries), call.limit - Len(out)) THEN <<>>
    ELSE <<Request("getProfile", NoCursor, <<Did(entries[i])>>)>>
            \o LookupRequestsUpToLimit(entries, i + 1)

\* the requests of the fan-out, issued in page order
RECURSIVE LookupRequests(_, _)
LookupRequests(entries, i) ==
    IF i > Len(entries) THEN <<>>
    ELSE <<Request("getProfile", NoCursor, <<Did(entries[i])>>)>> \o LookupRequests(entries, i + 1)

GetNonMutualFollows(limit) ==
    /\ pc = "idle"
    /\ call' = [NoCall EXCEPT !.name = "getNonMutualFollows", !.limit = limit]
    /\ IF session = NoSession
       THEN Throw("unauthenticated") /\ UNCHANGED net
       ELSE IF 0 < limit
            THEN Await(Request("getFollows", NoCursor, <<session>>))
            ELSE Finish(<<>>) /\ UNCHANGED net
    /\ UNCHANGED <<client, locals, history>>

\* agent.getFollows resolved: break on an empty page, else fan the lookups out
NonMutualReturn ==
    /\ call.name = "getNonMutualFollows"
    /\ Awaiting("getFollows")
    /\ \E follows \in Pages(EntryKinds), cur \in NextCursors, missing \in BOOLEAN :
        /\ missing => follows = <<>>
        /\ resp' = [n |-> resp.n + 1, cursor |-> cur, size |-> Len(follows),
                    missing |-> missing]
        /\ seen' = seen \o follows
        /\ IF Len(follows) = 0
           THEN /\ Finish(out)
                /\ UNCHANGED <<cursor, page, pending, checks, net>>
           ELSE /\ cursor' = cur
                /\ page' = follows
                /\ pending' = 1..Len(follows)
                /\ checks' = [i \in 1..Len(follows) |-> Unsettled]
                /\ net' = net \o LookupRequests(follows, 1)
                /\ pc' = "join"
                /\ UNCHANGED <<outcome, result>>
    /\ UNCHANGED <<client, call, out, idx, failed, lost>>

\* branch i of the Promise.all settles; the last one to settle ends the pass
NonMutualLookupSettles(i) ==
    /\ call.name = "getNonMutualFollows"
    /\ pc = "join"
    /\ i \in pending
    /\ \E throws \in BOOLEAN :
        LET settled == [checks EXCEPT ![i] = NonMutualCheck(page[i], throws)]
        IN  /\ failed' = (failed \/ throws)
            /\ lost' = IF throws THEN lost \cup {page[i].id} ELSE lost
            /\ pending' = pending \ {i}
            /\ IF pending = {i}
               THEN LET list == NonMutualLoop(out, settled, 1, call)
                    IN  /\ out' = list
                        /\ page' = <<>>
                        /\ checks' = <<>>
                        /\ IF NonMutualContinues(list, cursor, call)
                           THEN Await(Request("getFollows", cursor, <<session>>))
                           ELSE Finish(list) /\ UNCHANGED net
               ELSE /\ checks' = settled
                    /\ UNCHANGED <<out, page, pc, net, outcome, result>>
    /\ UNCHANGED <<client, call, cursor, idx, seen, resp>>

\* ---------------------------------------- BskyClient.getProfile, searchUsers
GetProfile(handle) ==
    /\ pc = "idle"
    /\ call' = [NoCall EXCEPT !.name = "getProfile", !.handle = handle]
    /\ IF Actor(handle) = NoSession
       THEN Throw("unauthenticated") /\ UNCHANGED net
       ELSE Await(Request("getProfile", NoCursor, <<Actor(handle)>>))
    /\ UNCHANGED <<client, locals, history>>

\* agent.getProfile resolved: the profile summary of the actor asked for
ProfileReturn ==
    /\ call.name = "getProfile"
    /\ Awaiting("getProfile")
    /\ Finish(<<[did |-> net[Len(net)].path[1]]>>)
    /\ UNCHANGED <<client, call, locals, net, history>>

\* no session test: the request is issued whatever the state of the client
SearchUsers(limit) ==
    /\ pc = "idle"
    /\ call' = [NoCall EXCEPT !.name = "searchUsers", !.limit = limit]
    /\ Await([Request("searchActors", NoCursor, <<"term">>) EXCEPT !.limit = limit])
    /\ UNCHANGED <<client, locals, history>>

\* agent.searchActors resolved: `data.actors || []`, each with its webUrl
SearchReturn ==
    /\ call.name = "searchUsers"
    /\ Awaiting("searchActors")
    /\ \E actors \in Pages({[id |-> 0]}) :
        /\ Finish(actors)
        /\ seen' = actors
    /\ UNCHANGED <<client, call, locals, net, resp, failed, lost>>

\* ------------------------------- BskyClient.replyToPost, newPost, likePost
ParentUri == "at://parent"
\* the uri of data.thread.post: the uri asked for, or the canonical one of the same post
ResolvedUris == {ParentUri, "at://did/parent"}
Cids == {"cidA", "cidB"}

\* no session test: the thread lookup is issued whatever the state of the client
ReplyToPost ==
    /\ pc = "idle"
    /\ call' = [NoCall EXCEPT !.name = "replyToPost"]
    /\ Await(Request("getPostThread", NoCursor, <<ParentUri>>))
    /\ UNCHANGED <<client, locals, history>>

\* ThreadReturn without the test of the parent: the record is submitted with the
\* uri asked for and no cid
ThreadReturnUnchecked ==
    /\ call.name = "replyToPost"
    /\ Awaiting("getPostThread")
    /\ \/ Await(Request("post:reply", NoCursor, <<ParentUri, "", ParentUri, "">>))
            /\ UNCHANGED seen
       \/ \E uri \in ResolvedUris, cid \in Cids :
            /\ seen' = <<[uri |-> uri, cid |-> cid]>>
            /\ Await(Request("post:reply", NoCursor, <<uri, cid, uri, cid>>))
    /\ UNCHANGED <<client, call, locals, resp, failed, lost>>

\* agent.getPostThread resolved: throw without data.thread.post, else submit the
\* reply record, whose root and parent are both the resolved parent's (uri, cid)
ThreadReturn ==
    /\ call.name = "replyToPost"
    /\ Awaiting("getPostThread")
    /\ \/ Throw("not_found") /\ UNCHANGED <<net, seen>>
       \/ \E uri \in ResolvedUris, cid \in Cids :
            /\ seen' = <<[uri |-> uri, cid |-> cid]>>
            /\ Await(Request("post:reply", NoCursor, <<uri, cid, uri, cid>>))
    /\ UNCHANGED <<client, call, locals, resp, failed, lost>>

\* one branch of the upload fan-out is at its fetch(url), at its uploadBlob, or has its blob
NewPost(images) ==
    /\ pc = "idle"
    /\ call' = [NoCall EXCEPT !.name = "newPost", !.images = images]
    /\ IF session = NoSession
       THEN Throw("unauthenticated") /\ UNCHANGED <<net, pending, checks>>
       ELSE IF images > 0
            THEN /\ pc' = "join"
                 /\ pending' = 1..images
                 /\ checks' = [i \in 1..images |-> "fetch"]
                 /\ net' = [i \in 1..images |-> Request("fetch", NoCursor, <<"url", i>>)]
                 /\ UNCHANGED <<outcome, result>>
            ELSE /\ Await([Request("post:post", NoCursor, <<>>) EXCEPT !.limit = 0])
                 /\ UNCHANGED <<pending, checks>>
    /\ UNCHANGED <<client, cursor, out, page, idx, history>>

\* branch i gets its answer: the image bytes, then the blob; the last blob submits the post
NewPostBranchSteps(i) ==
    /\ call.name = "newPost"
    /\ pc = "join"
    /\ i \in pending
    /\ IF checks[i] = "fetch"
       THEN /\ checks' = [checks EXCEPT ![i] = "upload"]
            /\ net' = Append(net, Request("uploadBlob", NoCursor, <<"url", i>>))
            /\ UNCHANGED <<pending, pc, outcome, result>>
       ELSE /\ checks' = [checks EXCEPT ![i] = "blob"]
            /\ pending' = pending \ {i}
            /\ IF pending = {i}
               THEN Await([Request("post:post", NoCursor, <<>>) EXCEPT !.limit = call.images])
               ELSE UNCHANGED <<pc, net, outcome, result>>
    /\ UNCHANGED <<client, call, cursor, out, page, idx, history>>

\* a request of branch i rejects: Promise.all rejects, and so does the method.  The
\* sibling branches run on, their values dropped.
NewPostBranchThrows(i) ==
    /\ call.name = "newPost"
    /\ pc = "join"
    /\ i \in pending
    /\ Throw("network")
    /\ failed' = TRUE
    /\ UNCHANGED <<client, call, locals, net, seen, resp, lost>>

LikePost ==
    /\ pc = "idle"
    /\ call' = [NoCall EXCEPT !.name = "likePost"]
    /\ IF session = NoSession
       THEN Throw("unauthenticated") /\ UNCHANGED net
       ELSE Await(Request("post:like", NoCursor, <<ParentUri, "cidA">>))
    /\ UNCHANGED <<client, locals, history>>

\* agent.post resolved: the write's result is returned
PostReturn ==
    /\ call.name \in {"replyToPost", "newPost", "likePost"}
    /\ pc = "await"
    /\ net[Len(net)].api \in {"post:reply", "post:post", "post:like"}
    /\ Finish(<<[written |-> net[Len(net)].api]>>)
    /\ UNCHANGED <<client, call, locals, net, history>>

\* ---------------------------------------------------------- RedditClient
HomeSorts == {"best", "hot", "new"}
SubredditSorts == {"top", "hot", "new", "controversial"}
\* the sort values callers pass
SortArgs == HomeSorts \cup SubredditSorts \cup {"bogus"}
Subreddits == {"javascript"}

RedditLogin ==
    /\ pc = "idle"
    /\ call' = [NoCall EXCEPT !.name = "reddit.login"]
    /\ Await(Request("POST", NoCursor, <<"api", "v1", "access_token">>))
    /\ UNCHANGED <<client, locals, history>>

\* axios.post resolved: the token is whatever the body holds, the instance is created
RedditLoginReturn ==
    /\ call.name = "reddit.login"
    /\ pc = "await"
    /\ \E tok \in {"", "token"} : token' = tok
    /\ axiosSet' = TRUE
    /\ Finish(<<>>)
    /\ UNCHANGED <<session, call, locals, net, history>>

\* a GET through this.axios, which is undefined before login: a TypeError
RedditGet(path, limit) ==
    IF ~axiosSet
    THEN Throw("type_error") /\ UNCHANGED net
    ELSE Await([Request("GET", NoCursor, path) EXCEPT !.limit = limit])

GetHomeFeed(limit, sort) ==
    /\ pc = "idle"
    /\ call' = [NoCall EXCEPT !.name = "getHomeFeed", !.limit = limit, !.sort = sort]
    /\ IF sort \notin HomeSorts
       THEN Throw("invalid_sort") /\ UNCHANGED net
       ELSE RedditGet(<<sort>>, limit)
    /\ UNCHANGED <<client, locals, history>>

\* GetSubredditFeed without the validation of sort
GetSubredditFeedUnchecked(subreddit, limit, sort) ==
    /\ pc = "idle"
    /\ call' = [NoCall EXCEPT !.name = "getSubredditFeed", !.subreddit = subreddit,
                              !.limit = limit, !.sort = sort]
    /\ RedditGet(<<"r", subreddit, "hot">>, limit)
    /\ UNCHANGED <<client, locals, history>>

GetSubredditFeed(subreddit, limit, sort) ==
    /\ pc = "idle"
    /\ call' = [NoCall EXCEPT !.name = "getSubredditFeed", !.subreddit = subreddit,
                              !.limit = limit, !.sort = sort]
    /\ IF sort \notin SubredditSorts
       THEN Throw("invalid_sort") /\ UNCHANGED net
       ELSE RedditGet(<<"r", subreddit, "hot">>, limit)
    /\ UNCHANGED <<client, locals, history>>

GetUserProfile ==
    /\ pc = "idle"
    /\ call' = [NoCall EXCEPT !.name = "getUserProfile"]
    /\ RedditGet(<<"api", "v1", "me">>, 0)
    /\ UNCHANGED <<client, locals, history>>

\* the listing resolved: every child goes through RedditClient.parseFeedItem
RedditFeedReturn ==
    /\ call.name \in {"getHomeFeed", "getSubredditFeed"}
    /\ pc = "await"
    /\ \E children \in Pages({[id |-> 0]}) :
        /\ Finish(children)
        /\ seen' = children
    /\ UNCHANGED <<client, call, locals, net, resp, failed, lost>>

\* /api/v1/me resolved: the profile object is built
UserProfileReturn ==
    /\ call.name = "getUserProfile"
    /\ pc = "await"
    /\ Finish(<<[name |-> "me"]>>)
    /\ UNCHANGED <<client, call, locals, net, history>>

\* ------------------------------------------------------------ specification
Next ==
    \/ \E l \in 0..MaxLimit : SearchUsers(l)
    \/ SearchReturn
    \/ Login
    \/ LoginReturn
    \/ \E t \in CallTypes, l \in 0..MaxLimit, s \in BOOLEAN : GetTimeline(t, l, s)
    \/ TimelineReturn
    \/ \E h \in Handles, t \in CallTypes, l \in 0..MaxLimit : GetProfilePosts(h, t, l)
    \/ ProfilePostsReturn
    \/ \E h \in Handles, l \in 0..MaxLimit : GetFollows(h, l)
    \/ FollowsReturn
    \/ FollowsLookupReturn
    \/ \E h \in Handles, l \in 0..MaxLimit : GetFollowers(h, l)
    \/ FollowersReturn
    \/ FollowersLookupReturn
    \/ \E l \in 0..MaxLimit : GetNonMutualFollows(l)
    \/ NonMutualReturn
    \/ \E i \in 1..MaxPage : NonMutualLookupSettles(i)
    \/ \E h \in Handles : GetProfile(h)
    \/ ProfileReturn
    \/ ReplyToPost
    \/ ThreadReturn
    \/ \E n \in 0..MaxImages : NewPost(n)
    \/ \E i \in 1..MaxImages : NewPostBranchSteps(i)
    \/ \E i \in 1..MaxImages : NewPostBranchThrows(i)
    \/ LikePost
    \/ PostReturn
    \/ \E item \in RawItems : CallParseFeedItem(item)
    \/ RequestThrows
    \/ Return

\* the Bluesky client
Spec == Init /\ [][Next]_vars

RedditNext ==
    \/ RedditLogin
    \/ RedditLoginReturn
    \/ \E l \in 0..MaxLimit, s \in SortArgs : GetHomeFeed(l, s)
    \/ \E r \in Subreddits, l \in 0..MaxLimit, s \in SortArgs : GetSubredditFeed(r, l, s)
    \/ GetUserProfile
    \/ RedditFeedReturn
    \/ UserProfileReturn
    \/ RequestThrows
    \/ Return

\* the Reddit client
RedditSpec == Init /\ [][RedditNext]_vars

\* both clients: they are separate objects sharing nothing, and a behaviour stays
\* with the one that has logged in
ClientsNext ==
    \/ ~axiosSet /\ Next
    \/ session = NoSession /\ RedditNext

ClientsSpec == Init /\ [][ClientsNext]_vars

\* ------------------------------------- two reads interleaved on one client
\* Two invocations of getTimeline / getProfilePosts on one logged-in BskyClient,
\* each suspended at its own `await`.  In this specification the variables of an
\* invocation (pc, call, cursor, out, seen, outcome, result) hold one value per
\* invocation; net is the one log of requests of the shared agent.
PairItems == 2
PairFetch == 2
Slots == {1, 2}
PairKinds == {PlainItem, ReplyItem}

\* the calls an invocation may be: a limit the first accepted post fills, or one
\* that takes every item the provider has
PairLimits == {1, PairItems}
PairCalls ==
    { [NoCall EXCEPT !.name = "getTimeline", !.type = "post", !.limit = l] :
        l \in PairLimits }
    \cup { [NoCall EXCEPT !.name = "getProfilePosts", !.type = "post", !.handle = "bob",
                          !.limit = l] : l \in PairLimits }

PairInit ==
    /\ session = SelfDid
    /\ token = ""
    /\ axiosSet = FALSE
    /\ pc = [i \in Slots |-> "idle"]
    /\ call = [i \in Slots |-> NoCall]
    /\ cursor = [i \in Slots |-> NoCursor]
    /\ out = [i \in Slots |-> <<>>]
    /\ page = <<>>
    /\ idx = 0
    /\ pending = {}
    /\ checks = <<>>
    /\ net = <<>>
    /\ seen = [i \in Slots |-> <<>>]
    /\ resp = NoResp
    /\ failed = FALSE
    /\ lost = {}
    /\ outcome = [i \in Slots |-> "none"]
    /\ result = [i \in Slots |-> <<>>]

\* the page fetch of invocation i
PairRequest(i, c, cur) ==
    IF c.name = "getTimeline"
    THEN [api |-> "getTimeline", cursor |-> cur, path |-> <<>>, limit |-> 0, slot |-> i]
    ELSE [api |-> "getAuthorFeed", cursor |-> cur, path |-> <<Actor(c.handle)>>,
          limit |-> 0, slot |-> i]

\* the for loop and the loop exit of the method c calls
PairLoop(c, posts, feed) ==
    IF c.name = "getTimeline" THEN TimelineLoop(posts, feed, 1, c)
    ELSE ProfilePostsLoop(posts, feed, 1, c)

PairContinues(c, posts, feed, cur) ==
    IF c.name = "getTimeline" THEN TimelineContinues(posts, feed, cur, c)
    ELSE ProfilePostsContinues(posts, feed, cur, c)

\* the items invocation i has been served
RECURSIVE PairServed(_)
PairServed(resps) ==
    IF resps = <<>> THEN 0 ELSE Len(resps[1].feed) + PairServed(Tail(resps))

\* what the provider may answer invocation i: a page of items of its own feed,
\* and a cursor that names this response of this invocation
PairPages(i) ==
    LET served == PairServed(seen[i])
    IN  UNION { { [j \in 1..n |-> [f[j] EXCEPT !.id = 10 * i + served + j]] :
                    f \in [1..n -> PairKinds] }
                : n \in 0..Min(MaxPage, PairItems - served) }

PairCursors(i) ==
    IF Len(seen[i]) + 1 < PairFetch THEN {NoCursor, 10 * i + Len(seen[i]) + 1}
    ELSE {NoCursor}

\* OwnList with the list kept in a field of the client, one for all invocations
SharedList(i, posts) == [s \in Slots |-> posts]

\* `let posts = []` is a local of the invocation: writing it touches no other
OwnList(i, posts) == [out EXCEPT ![i] = posts]

\* invocation i starts: fresh locals, first fetch.  The invocations are numbered
\* in the order they start.
PairCall(i, c) ==
    /\ pc[i] = "idle"
    /\ \A j \in Slots : j < i => pc[j] # "idle"
    /\ call' = [call EXCEPT ![i] = c]
    /\ cursor' = [cursor EXCEPT ![i] = NoCursor]
    /\ out' = OwnList(i, <<>>)
    /\ net' = Append(net, PairRequest(i, c, NoCursor))
    /\ pc' = [pc EXCEPT ![i] = "await"]
    /\ UNCHANGED <<client, page, idx, pending, checks, history, outcome, result>>

\* the fetch of invocation i resolved: one pass of its while loop
PairFetchReturn(i) ==
    /\ pc[i] = "await"
    /\ \E feed \in PairPages(i), cur \in PairCursors(i) :
        LET posts == PairLoop(call[i], out[i], feed)
        IN  /\ cursor' = [cursor EXCEPT ![i] = cur]
            /\ out' = OwnList(i, posts)
            /\ seen' = [seen EXCEPT ![i] = Append(@, [feed |-> feed, cursor |-> cur])]
            /\ IF PairContinues(call[i], posts, feed, cur)
               THEN /\ net' = Append(net, PairRequest(i, call[i], cur))
                    /\ UNCHANGED <<pc, outcome, result>>
               ELSE /\ pc' = [pc EXCEPT ![i] = "done"]
                    /\ outcome' = [outcome EXCEPT ![i] = "ok"]
                    /\ result' = [result EXCEPT ![i] = posts]
                    /\ UNCHANGED net
    /\ UNCHANGED <<client, call, page, idx, pending, checks, resp, failed, lost>>

\* the fetch of invocation i rejected: the invocation rejects
PairFetchThrows(i) ==
    /\ pc[i] = "await"
    /\ pc' = [pc EXCEPT ![i] = "done"]
    /\ outcome' = [outcome EXCEPT ![i] = "network"]
    /\ result' = [result EXCEPT ![i] = <<>>]
    /\ UNCHANGED <<client, call, locals, net, history>>

\* the caller has the outcomes of the invocations it started
PairReturn ==
    /\ \A i \in Slots : pc[i] \in {"idle", "done"}
    /\ \E i \in Slots : pc[i] = "done"
    /\ pc' = [i \in Slots |-> "idle"]
    /\ call' = [i \in Slots |-> NoCall]
    /\ cursor' = [i \in Slots |-> NoCursor]
    /\ out' = [i \in Slots |-> <<>>]
    /\ net' = <<>>
    /\ seen' = [i \in Slots |-> <<>>]
    /\ outcome' = [i \in Slots |-> "none"]
    /\ result' = [i \in Slots |-> <<>>]
    /\ UNCHANGED <<client, page, idx, pending, checks, resp, failed, lost>>

PairNext ==
    \/ \E i \in Slots, c \in PairCalls : PairCall(i, c)
    \/ \E i \in Slots : PairFetchReturn(i)
    \/ \E i \in Slots : PairFetchThrows(i)
    \/ PairReturn

PairSpec == PairInit /\ [][PairNext]_vars

\* ================================================================= claims
PaginatedReads ==
    {"getTimeline", "getProfilePosts", "getFollows", "getFollowers", "getNonMutualFollows"}
FeedReads == {"getTimeline", "getProfilePosts"}
FollowListReads == {"getFollows", "getFollowers"}
\* the read and write operations of the Bluesky client
BskyOperations ==
    PaginatedReads \cup {"getProfile", "searchUsers", "replyToPost", "newPost", "likePost"}

Returned == pc = "done" /\ outcome = "ok"

\* the first n elements of a list
Take(list, n) == SubSeq(list, 1, Min(n, Len(list)))

\* the items of the pages served that the running feed read accepts, in page order
AcceptedPosts ==
    LET parsed == [i \in 1..Len(seen) |-> ParseFeedItem(seen[i])]
    IN  IF call.name = "getTimeline"
        THEN SelectSeq(parsed, LAMBDA p : TimelineAccepts(p, call))
        ELSE SelectSeq(parsed, LAMBDA p : ProfilePostsAccepts(p, call))

\* the entries served, each flagged with what its profile reports
FlaggedEntries ==
    [i \in 1..Len(seen) |-> [seen[i] EXCEPT !.flag = IF seen[i].rel THEN "yes" ELSE "no"]]

\* the entries served whose lookup answered that they do not follow back
NonMutualEntries ==
    SelectSeq(FlaggedEntries, LAMBDA e : ~e.rel /\ e.id \notin lost)

\* what the running paginated read has accepted of the pages served so far
AcceptedSoFar ==
    IF call.name \in FeedReads THEN AcceptedPosts
    ELSE IF call.name \in FollowListReads THEN FlaggedEntries
    ELSE NonMutualEntries

\* C1: a paginated read never returns more than `limit` items, whatever the
\* sizes of the pages it was served.
C1_AtMostLimit ==
    (Returned /\ call.name \in PaginatedReads) => Len(result) <= call.limit

\* C1 witness: getFollows returned exactly `limit` entries although the pages
\* it read held more.
C1_Witness ==
    /\ Returned
    /\ call.name = "getFollows"
    /\ call.limit > 0
    /\ Len(out) > call.limit
    /\ Len(result) = call.limit

\* C2: on a client with no session every read and write operation is rejected
\* with the authentication error and has issued no request.
C2_UnauthenticatedRejects ==
    (session = NoSession /\ call.name \in BskyOperations)
        => /\ net = <<>>
           /\ pc = "done"
           /\ outcome = "unauthenticated"

\* C3: once a response without a next cursor has been processed and the limit
\* is not reached, the read has returned, without error, all the items accepted
\* so far, fewer than the limit.
C3_ExhaustedReturnsShort ==
    ( /\ call.name \in PaginatedReads
      /\ resp.n > 0
      /\ resp.cursor = NoCursor
      /\ page = <<>>
      /\ Len(AcceptedSoFar) < call.limit )
        => /\ Returned
           /\ result = AcceptedSoFar
           /\ Len(result) < call.limit

\* C3 witness: getTimeline returned one post, short of its limit, after a
\* second page that carried no cursor.
C3_Witness ==
    /\ Returned
    /\ call.name = "getTimeline"
    /\ resp.n = 2
    /\ resp.cursor = NoCursor
    /\ Len(result) = 1
    /\ call.limit > 1

\* C4: getTimeline and getProfilePosts return exactly the first min(limit, A)
\* accepted items, in page order and then within-page order.
C4_FirstAcceptedInOrder ==
    (Returned /\ call.name \in FeedReads) => result = Take(AcceptedPosts, call.limit)

\* C4 witness: a first page shorter than the limit, a second page that
\* overshoots it: the result is all of page one and the head of page two.
C4_Witness ==
    /\ Returned
    /\ call.name = "getTimeline"
    /\ resp.n = 2
    /\ Len(AcceptedPosts) > call.limit
    /\ Len(result) = call.limit
    /\ Len(seen) - resp.size < call.limit
    /\ result[1].root.id = 1

\* the acceptance of a raw item as the claim words it
ClaimedAccept(item, c) ==
    /\ item.post = "present"
    /\ IF c.name = "getTimeline"
       THEN /\ (c.type # NoType => Classify(item) = c.type)
            /\ (c.includeSelf \/ item.author # "self")
       ELSE Classify(item) = c.type

InResult(item) == \E k \in 1..Len(result) : result[k].root = item

\* C5: an item of the pages read is in the result only if it normalizes to a
\* post, matches the requested type and (getTimeline) passes the includeSelf
\* test; and an item that does is left out only when the limit was filled by
\* items before it.
C5_IncludedIffAccepted ==
    (Returned /\ call.name \in FeedReads)
        => \A i \in 1..Len(seen) :
            /\ InResult(seen[i]) => ClaimedAccept(seen[i], call)
            /\ (ClaimedAccept(seen[i], call) /\ ~InResult(seen[i]))
                => /\ Len(result) = call.limit
                   /\ \A k \in 1..Len(result) : result[k].root.id < seen[i].id

\* C5 witness: one page of a repost, a reply and a plain post read with
\* type 'post': the result is the plain post alone.
C5_Witness ==
    /\ Returned
    /\ call.name = "getTimeline"
    /\ call.type = "post"
    /\ call.limit = MaxLimit
    /\ resp.n = 1
    /\ Len(seen) = 3
    /\ seen[1].reason = "reasonRepost"
    /\ seen[2].replyParent
    /\ Classify(seen[3]) = "post"
    /\ Len(result) = 1
    /\ result[1].root = seen[3]

\* the type the claim assigns to each combination of the three markers
ClaimedType(item) ==
    CASE item.reason = "reasonRepost" -> "repost"
      [] item.reason # "reasonRepost" /\ item.replyParent -> "reply"
      [] item.reason # "reasonRepost" /\ ~item.replyParent
            /\ item.embed \in {"record#view", "recordWithMedia#view"} -> "quote"
      [] OTHER -> "post"

\* C6: parseFeedItem types a post repost, else reply, else quote, else post,
\* by the presence of the repost reason, the reply parent and the record embed.
C6_ClassificationPriority ==
    (Returned /\ call.name = "parseFeedItem" /\ result[1] # Null)
        => result[1].type = ClaimedType(call.item)

\* C6 witness: an item with both the repost reason and a reply parent came
\* out as a repost.
C6_Witness ==
    /\ Returned
    /\ call.name = "parseFeedItem"
    /\ call.item.reason = "reasonRepost"
    /\ call.item.replyParent
    /\ result[1] # Null
    /\ result[1].type = "repost"

\* C7: for every raw item without a post payload (no post, a null post, a null
\* or undefined item) parseFeedItem returns null and does not throw.
C7_NoPayloadGivesNull ==
    ( /\ pc = "done"
      /\ call.name = "parseFeedItem"
      /\ (call.item.shape # "object" \/ call.item.post # "present") )
        => /\ outcome = "ok"
           /\ result = <<Null>>

\* C8: when fewer entries than the limit answer that they do not follow back,
\* getNonMutualFollows reads on to the provider's last page and returns exactly
\* those entries, each with followsMe false.
C8_NonMutualExactlyK ==
    ( /\ Returned
      /\ call.name = "getNonMutualFollows"
      /\ Len(NonMutualEntries) < call.limit )
        => /\ Len(result) = Len(NonMutualEntries)
           /\ \A k \in 1..Len(result) : result[k].flag = "no" /\ ~result[k].rel
           /\ (resp.cursor = NoCursor \/ resp.size = 0)

\* C8 witness: two pages, three entries, one of them mutual, limit 3: two
\* entries returned.
C8_Witness ==
    /\ Returned
    /\ call.name = "getNonMutualFollows"
    /\ call.limit = 3
    /\ resp.n = 2
    /\ Len(seen) = 3
    /\ lost = {}
    /\ Len(result) = 2

\* the call carries a sort value outside the operation's set
InvalidSort ==
    \/ call.name = "getHomeFeed" /\ call.sort \notin {"best", "hot", "new"}
    \/ call.name = "getSubredditFeed" /\ call.sort \notin {"top", "hot", "new", "controversial"}

\* C9: getHomeFeed and getSubredditFeed with a sort value outside their set
\* are rejected with the validation error and send no request, logged in or not.
C9_InvalidSortRejected ==
    InvalidSort => (pc = "done" /\ outcome = "invalid_sort" /\ net = <<>>)

\* C9 witness: a logged-in client rejected getSubredditFeed with sort 'best',
\* a value of the home feed only.
C9_Witness ==
    /\ axiosSet
    /\ call.name = "getSubredditFeed"
    /\ call.sort = "best"
    /\ outcome = "invalid_sort"

\* C10: the request of getSubredditFeed asks for the listing of the subreddit
\* in the sort order passed.
C10_RequestUsesSort ==
    (call.name = "getSubredditFeed" /\ net # <<>>)
        => net[1].path = <<"r", call.subreddit, call.sort>>

\* the api of the page fetch of each paginated read
PageApi(name) ==
    CASE name = "getTimeline" -> "getTimeline"
      [] name = "getProfilePosts" -> "getAuthorFeed"
      [] name = "getFollowers" -> "getFollowers"
      [] OTHER -> "getFollows"

\* the page fetches the running read has issued, in order
Fetches == SelectSeq(net, LAMBDA r : r.api = PageApi(call.name))

\* the profile lookups the running read has issued, in order
Lookups == SelectSeq(net, LAMBDA r : r.api = "getProfile")

\* the running paginated read is over and its last page fetch was never answered
FetchThrew ==
    /\ call.name \in PaginatedReads
    /\ pc = "done"
    /\ Len(Fetches) > resp.n

\* C11 as claimed: when a page fetch throws, the read returns the items
\* accumulated so far (none when the first fetch throws) and does not retry.
C11_FetchThrowReturnsAccumulated ==
    FetchThrew
        => /\ outcome = "ok"
           /\ result = Take(out, call.limit)
           /\ Len(Fetches) = resp.n + 1

\* C11 amended: when a page fetch throws, the read rejects with the error of
\* the transport, returns nothing of what it accumulated, and does not retry.
C11_FetchThrowRejects ==
    FetchThrew
        => /\ outcome = "network"
           /\ result = <<>>
           /\ Len(Fetches) = resp.n + 1

\* C11 witness: getTimeline had accumulated a post when its second page fetch
\* threw: the call rejected.
C11_Witness ==
    /\ FetchThrew
    /\ call.name = "getTimeline"
    /\ resp.n = 1
    /\ Len(out) = 1
    /\ call.limit > 1
    /\ outcome = "network"

\* C12: replyToPost looks the parent up first and then submits one reply
\* record whose root and parent are both the resolved parent's (uri, cid);
\* without a parent it fails with not-found and submits nothing.
C12_ReplyAfterLookup ==
    call.name = "replyToPost"
        => /\ Len(net) <= 2
           /\ net[1].api = "getPostThread"
           /\ Len(net) = 2
                => /\ net[2].api = "post:reply"
                   /\ seen # <<>>
                   /\ net[2].path = <<seen[1].uri, seen[1].cid, seen[1].uri, seen[1].cid>>
           /\ (pc = "done" /\ seen = <<>> /\ ~failed)
                => (outcome = "not_found" /\ Len(net) = 1)
           /\ outcome = "not_found" => Len(net) = 1

\* C12 witness: the reply was written with root and parent set to the pair the
\* lookup resolved, whose uri is not the one the caller passed.
C12_Witness ==
    /\ Returned
    /\ call.name = "replyToPost"
    /\ Len(net) = 2
    /\ seen[1].uri # ParentUri
    /\ net[2].path[1] = seen[1].uri
    /\ net[2].path[3] = seen[1].uri

C14_CursorChain ==
    call.name \in PaginatedReads
        => /\ Len(Fetches) \in {resp.n, resp.n + 1}
           /\ \A k \in 1..Len(Fetches) :
                Fetches[k].cursor = (IF k = 1 THEN NoCursor ELSE k - 1)
           /\ (Len(Fetches) = resp.n + 1 /\ resp.n > 0)
                => /\ resp.cursor # NoCursor
                   /\ Fetches[resp.n + 1].cursor = resp.cursor
           /\ (Len(Fetches) = resp.n + 1 /\ pc # "done")
                => Awaiting(PageApi(call.name))

\* C14 witness: getNonMutualFollows fetched a second page with the cursor of
\* the first response and stopped at the second response, which had entries
\* and no cursor, short of the limit.
C14_Witness ==
    /\ Returned
    /\ call.name = "getNonMutualFollows"
    /\ resp.n = 2
    /\ Len(Fetches) = 2
    /\ Fetches[2].cursor = 1
    /\ resp.cursor = NoCursor
    /\ resp.size > 0
    /\ Len(result) < call.limit

\* C15: getNonMutualFollows issues the lookups of a page together and joins
\* them before the next page fetch; a lookup that fails excludes its own entry
\* only: the call does not fail and every other entry is classified by its own
\* lookup, in whatever order the lookups complete.
C15_LookupFailureIsolated ==
    call.name = "getNonMutualFollows"
        => /\ pc = "join"
                => /\ Len(Fetches) = resp.n
                   /\ pending # {}
                   /\ \A i \in 1..Len(page) :
                        /\ net[Len(net) - Len(page) + i].api = "getProfile"
                        /\ net[Len(net) - Len(page) + i].path = <<Did(page[i])>>
                        /\ i \notin pending
                            => checks[i] =
                                 IF page[i].id \in lost \/ page[i].rel THEN Null
                                 ELSE [page[i] EXCEPT !.flag = "no"]
           /\ (pc = "done" /\ Len(Fetches) = resp.n /\ session # NoSession)
                => /\ outcome = "ok"
                   /\ result = Take(NonMutualEntries, call.limit)
                   /\ Len(Lookups) = Len(seen)

\* C15 witness: of a page of two entries the lookup of the first failed, and the
\* call returned the second, which does not follow back.
C15_Witness ==
    /\ Returned
    /\ call.name = "getNonMutualFollows"
    /\ resp.n = 1
    /\ Len(seen) = 2
    /\ lost = {seen[1].id}
    /\ Len(result) = 1
    /\ result[1].id = seen[2].id

\* getFollows, getFollowers or newPost is over and one of its per-item requests
\* (a profile check, the download or the upload of an image) had rejected
ItemBranchFailed ==
    /\ call.name \in FollowListReads \cup {"newPost"}
    /\ pc = "done"
    /\ failed
    /\ net # <<>>
    /\ net[Len(net)].api \in {"getProfile", "fetch", "uploadBlob"}

\* C16 as claimed: in getFollows, getFollowers and newPost a per-item branch
\* that fails does not abort the operation, which completes with the other items.
C16_ItemFailureIsolated ==
    ItemBranchFailed => outcome = "ok"

\* C18 as claimed: a paginated read issues no page fetch after a response whose
\* item list is empty or missing, even when that response carries a cursor.
C18_EmptyPageStops ==
    (call.name \in PaginatedReads /\ resp.n > 0 /\ resp.size = 0 /\ ~failed)
        => /\ Len(Fetches) = resp.n
           /\ pc = "done"

LookupReads == FollowListReads \cup {"getNonMutualFollows"}

\* C19 as claimed: nothing positioned after the entry that fills the limit is
\* processed, so getFollows, getFollowers and getNonMutualFollows issue no
\* profile lookup for such an entry.
C19_NoLookupPastLimit ==
    (Returned /\ call.name \in LookupReads /\ call.limit > 0 /\ Len(result) = call.limit)
        => \A k \in 1..Len(Lookups), i \in 1..Len(seen) :
              Lookups[k].path = <<Did(seen[i])>> => seen[i].id <= result[call.limit].id

\* C19 amended: no item positioned after the one that fills the limit gets
\* into the result of a paginated read; getFollows, getFollowers and
\* getNonMutualFollows still look up every entry of every page they fetched,
\* one lookup per entry, those after the limit-filling entry included.
C19_WholePageLookedUp ==
    (Returned /\ call.name \in PaginatedReads)
        => /\ result = Take(AcceptedSoFar, call.limit)
           /\ call.name \in LookupReads
                => /\ Len(Lookups) = Len(seen)
                   /\ \A i \in 1..Len(seen) : Lookups[i].path = <<Did(seen[i])>>

\* C19 witness: getFollows(limit 1) was served a page of three entries,
\* returned the first and had looked all three up.
C19_Witness ==
    /\ Returned
    /\ call.name = "getFollows"
    /\ call.limit = 1
    /\ Len(result) = 1
    /\ Len(seen) = 3
    /\ resp.n = 1
    /\ Len(Lookups) = 3

\* the operations that test the session's did, and those that fall back on it
SessionGuarded == {"getTimeline", "getNonMutualFollows", "newPost", "likePost"}
HandleOrSession == {"getProfile", "getProfilePosts", "getFollows", "getFollowers"}

\* C20: without a session, getTimeline, getNonMutualFollows, newPost and
\* likePost, and getProfile, getProfilePosts, getFollows and getFollowers called
\* without a handle, throw before any network call.
C20_NoSessionNoRequest ==
    ( /\ session = NoSession
      /\ \/ call.name \in SessionGuarded
         \/ call.name \in HandleOrSession /\ call.handle = NoHandle )
        => /\ pc = "done"
           /\ outcome = "unauthenticated"
           /\ net = <<>>

\* C20 witness: getFollowers() without a handle on a client that never logged
\* in threw, with no request made.
C20_Witness ==
    /\ session = NoSession
    /\ call.name = "getFollowers"
    /\ call.handle = NoHandle
    /\ call.limit > 0
    /\ outcome = "unauthenticated"
    /\ net = <<>>

\* the fetches invocation i has issued, in order
PairFetches(i) == SelectSeq(net, LAMBDA r : r.slot = i)

\* the result of call c run alone against the responses resps, from response k on
RECURSIVE PairAlone(_, _, _, _)
PairAlone(c, posts, resps, k) ==
    IF k > Len(resps) THEN posts
    ELSE LET list == PairLoop(c, posts, resps[k].feed)
         IN  IF PairContinues(c, list, resps[k].feed, resps[k].cursor)
             THEN PairAlone(c, list, resps, k + 1)
             ELSE list

\* C21: two paginated reads interleaved on one logged-in client do not
\* interfere: each sends its own cursors and returns, whatever the interleaving
\* of the fetches, what it returns alone against the responses it was given.
C21_InterleavedReadsIndependent ==
    \A i \in Slots :
        /\ \A k \in 1..Len(PairFetches(i)) :
              PairFetches(i)[k].cursor =
                  (IF k = 1 THEN NoCursor ELSE seen[i][k - 1].cursor)
        /\ (pc[i] = "done" /\ outcome[i] = "ok")
              => /\ result[i] = PairAlone(call[i], <<>>, seen[i], 1)
                 /\ \A j \in 1..Len(result[i]) : result[i][j].root.id \div 10 = i

\* C21 witness: the second read started and was answered between the two fetches
\* of the first, and both returned posts.
C21_Witness ==
    /\ \A i \in Slots : pc[i] = "done" /\ outcome[i] = "ok" /\ result[i] # <<>>
    /\ Len(net) >= 3
    /\ net[1].slot = 1
    /\ net[2].slot = 2
    /\ net[3].slot = 1
    /\ Len(seen[2]) = 1
    /\ Len(result[1]) = 2

====
